---- MODULE Spec2Model ----
(***************************************************************************)
(* Model of the interactive task manager in src/lTCT.py: the global task   *)
(* list, the command handlers reached from main(), and the pure functions  *)
(* that project the list into its grouped, priority-sorted display.        *)
(*                                                                         *)
(* A text line (a title, a line typed at a prompt) is a sequence of        *)
(* one-character strings.  A printed line is a tuple: <<text>> for a       *)
(* message and <<number, status, title, priority>> for a task line.        *)
(***************************************************************************)
EXTENDS Integers, Sequences, FiniteSets, TLC

VARIABLES tasks, pc, title, out, last, prev, twice

vars == <<tasks, pc, title, out, last, prev, twice>>

(***************************************************************************)
(* Bounds and input alphabets                                              *)
(***************************************************************************)
MaxTasks == 3

Whitespace == {" ", "\t"}

Digits == {"0", "1", "2", "3", "4", "5", "6", "7", "8", "9"}

\* Lines typed at the "Task title: " prompt.  They yield the titles a, A, b
\* and ab: three titles that differ ignoring case, so a store holds at most
\* three tasks.
TitleLines ==
    { <<>>, <<" ">>, <<"a">>, <<"A">>, <<" ", "a", "\t">>, <<"b">>, <<"a", "b">> }

\* Lines typed at the "Select an option (0-6): " prompt.
MenuLines ==
    { <<"1">>, <<" ", "2">>, <<"3">>, <<"+", "4">>, <<"5">>, <<"6">>, <<"0">>,
      <<"7">>, <<"-", "1">>, <<"x">>, <<>> }

\* Lines typed at the "Enter keyword to search: " prompt.
KeywordLines ==
    { <<>>, <<"a">>, <<" ", "B">>, <<"A", "b">>, <<"b", "a">> }

\* Lines typed at the priority prompt and at the task number prompts.
NumberLines ==
    { <<>>, <<"x">>, <<"0">>, <<"1">>, <<"2">>, <<"3">>, <<"4">>,
      <<"-", "1">>, <<" ", "0", "_", "2">> }

(***************************************************************************)
(* Strings: str.lower, str.strip, int()                                    *)
(***************************************************************************)
LowerChar(c) ==
    CASE c = "A" -> "a"
      [] c = "B" -> "b"
      [] c = "C" -> "c"
      [] OTHER -> c

\* lower() left out.
LowerOmitted(s) == s

Lower(s) == [i \in 1..Len(s) |-> LowerChar(s[i])]

RECURSIVE LStrip(_)
LStrip(s) ==
    IF s # <<>> /\ Head(s) \in Whitespace THEN LStrip(Tail(s)) ELSE s

RECURSIVE RStrip(_)
RStrip(s) ==
    IF s # <<>> /\ s[Len(s)] \in Whitespace
    THEN RStrip(SubSeq(s, 1, Len(s) - 1))
    ELSE s

\* strip() left out.
StripOmitted(s) == s

Strip(s) == RStrip(LStrip(s))

DigitVal(c) ==
    CASE c = "0" -> 0 [] c = "1" -> 1 [] c = "2" -> 2 [] c = "3" -> 3
      [] c = "4" -> 4 [] c = "5" -> 5 [] c = "6" -> 6 [] c = "7" -> 7
      [] c = "8" -> 8 [] c = "9" -> 9

\* The digits of a literal: digit groups separated by single underscores.
IsDigitString(d) ==
    /\ d # <<>>
    /\ \A i \in 1..Len(d) : d[i] \in Digits \cup {"_"}
    /\ d[1] \in Digits
    /\ d[Len(d)] \in Digits
    /\ \A i \in 1..(Len(d) - 1) : ~(d[i] = "_" /\ d[i + 1] = "_")

RECURSIVE DigitsValue(_)
DigitsValue(d) ==
    IF d = <<>> THEN 0
    ELSE IF d[Len(d)] = "_" THEN DigitsValue(SubSeq(d, 1, Len(d) - 1))
    ELSE 10 * DigitsValue(SubSeq(d, 1, Len(d) - 1)) + DigitVal(d[Len(d)])

\* int(line): [ok |-> TRUE, val |-> n], or ok = FALSE for a ValueError.
ParseInt(line) ==
    LET s == Strip(line)
        signed == s # <<>> /\ Head(s) \in {"+", "-"}
        d == IF signed THEN Tail(s) ELSE s
    IN  IF IsDigitString(d)
        THEN [ok |-> TRUE,
              val |-> IF signed /\ Head(s) = "-" THEN 0 - DigitsValue(d)
                      ELSE DigitsValue(d)]
        ELSE [ok |-> FALSE, val |-> 0]

(***************************************************************************)
(* The task record and the view projection                                 *)
(***************************************************************************)
Task(t, d, p) == [title |-> t, done |-> d, priority |-> p]

\* list(enumerate(tasks)): pairs <<original index, task>>, zero-based.
_indexed_tasks(ts) == [i \in 1..Len(ts) |-> <<i - 1, ts[i]>>]

\* An insertion that puts pair before the elements of equal key.
RECURSIVE InsertBeforeEqual(_, _)
InsertBeforeEqual(sorted, pair) ==
    IF sorted = <<>> THEN <<pair>>
    ELSE IF sorted[Len(sorted)][2].priority < pair[2].priority
         THEN Append(sorted, pair)
         ELSE Append(InsertBeforeEqual(SubSeq(sorted, 1, Len(sorted) - 1), pair),
                     sorted[Len(sorted)])

\* Insert pair into an already sorted list after every element whose key is
\* not greater: the stable insertion that sorted() performs.
RECURSIVE InsertByPriority(_, _)
InsertByPriority(sorted, pair) ==
    IF sorted = <<>> THEN <<pair>>
    ELSE IF sorted[Len(sorted)][2].priority <= pair[2].priority
         THEN Append(sorted, pair)
         ELSE Append(InsertByPriority(SubSeq(sorted, 1, Len(sorted) - 1), pair),
                     sorted[Len(sorted)])

RECURSIVE _sorted_indexed_by_priority(_)
_sorted_indexed_by_priority(indexed) ==
    IF indexed = <<>> THEN <<>>
    ELSE InsertByPriority(
             _sorted_indexed_by_priority(SubSeq(indexed, 1, Len(indexed) - 1)),
             indexed[Len(indexed)])

\* The done group filtered from the list before it was sorted.
build_display_groups_done_unsorted(ts) ==
    LET sorted_indexed == _sorted_indexed_by_priority(_indexed_tasks(ts))
    IN  [undone |-> SelectSeq(sorted_indexed, LAMBDA pair : ~pair[2].done),
         done   |-> SelectSeq(_indexed_tasks(ts), LAMBDA pair : pair[2].done)]

build_display_groups(ts) ==
    LET sorted_indexed == _sorted_indexed_by_priority(_indexed_tasks(ts))
    IN  [undone |-> SelectSeq(sorted_indexed, LAMBDA pair : ~pair[2].done),
         done   |-> SelectSeq(sorted_indexed, LAMBDA pair : pair[2].done)]

\* The two groups concatenated in the wrong order.
build_display_mapping_done_first(ts) ==
    LET g == build_display_groups(ts)
        all == g.done \o g.undone
    IN  [k \in 1..Len(all) |-> all[k][1]]

build_display_mapping(ts) ==
    LET g == build_display_groups(ts)
        all == g.undone \o g.done
    IN  [k \in 1..Len(all) |-> all[k][1]]

format_task_line(index, task) ==
    <<index, IF task.done THEN "[x]" ELSE "[ ]", task.title, task.priority>>

print_grouped_tasks(ts) ==
    LET g == build_display_groups(ts)
        start == Len(g.undone) + 1
    IN  <<  <<"\nTasks:">>  >>
        \o (IF g.undone # <<>>
            THEN << <<"\nUndone:">> >>
                 \o [i \in 1..Len(g.undone) |-> format_task_line(i, g.undone[i][2])]
            ELSE << <<"\nNo undone tasks.">> >>)
        \o (IF g.done # <<>>
            THEN << <<"\nDone:">> >>
                 \o [j \in 1..Len(g.done) |->
                        format_task_line(start + j - 1, g.done[j][2])]
            ELSE <<>>)

\* Only the stored title is lowered.
title_exists_one_side(ts, t) ==
    \E i \in 1..Len(ts) : Lower(ts[i].title) = t

title_exists(ts, t) ==
    \E i \in 1..Len(ts) : Lower(ts[i].title) = Lower(t)

\* The typed number used as a position in the list, without the mapping.
get_display_index_unmapped(ts, line) ==
    LET n == ParseInt(line)
    IN  IF ~n.ok
        THEN [none |-> TRUE, idx |-> 0, msg |-> "Please enter a valid number."]
        ELSE IF 1 <= n.val /\ n.val <= Len(ts)
             THEN [none |-> FALSE, idx |-> n.val - 1, msg |-> ""]
             ELSE [none |-> TRUE, idx |-> 0, msg |-> "Invalid task number."]

\* The upper end of the range check made strict.
get_display_index_strict(ts, line) ==
    LET mapping == build_display_mapping(ts)
        n == ParseInt(line)
    IN  IF ~n.ok
        THEN [none |-> TRUE, idx |-> 0, msg |-> "Please enter a valid number."]
        ELSE IF 1 <= n.val /\ n.val < Len(mapping)
             THEN [none |-> FALSE, idx |-> mapping[n.val], msg |-> ""]
             ELSE [none |-> TRUE, idx |-> 0, msg |-> "Invalid task number."]

\* get_display_index on a non-empty list, after the line has been read:
\* [none |-> FALSE, idx |-> original index] or none = TRUE with the message.
get_display_index(ts, line) ==
    LET mapping == build_display_mapping(ts)
        n == ParseInt(line)
    IN  IF ~n.ok
        THEN [none |-> TRUE, idx |-> 0, msg |-> "Please enter a valid number."]
        ELSE IF 1 <= n.val /\ n.val <= Len(mapping)
             THEN [none |-> FALSE, idx |-> mapping[n.val], msg |-> ""]
             ELSE [none |-> TRUE, idx |-> 0, msg |-> "Invalid task number."]

\* "sub in s" for two strings.
Contains(s, sub) ==
    \E off \in 0..(Len(s) - Len(sub)) : SubSeq(s, off + 1, off + Len(sub)) = sub

\* The keyword looked up in the title as stored, not lowered.
find_matching_tasks_title_as_stored(ts, keyword) ==
    LET indexed == _indexed_tasks(ts)
        matches == SelectSeq(indexed, LAMBDA pair : Contains(pair[2].title, keyword))
    IN  _sorted_indexed_by_priority(matches)

find_matching_tasks(ts, keyword) ==
    LET indexed == _indexed_tasks(ts)
        matches == SelectSeq(indexed,
                             LAMBDA pair : Contains(Lower(pair[2].title), keyword))
    IN  _sorted_indexed_by_priority(matches)

\* Every task counted as done.
report_counts_all_done(ts) ==
    LET done_count == Len(ts)
    IN  [done_count |-> done_count, undone_count |-> Len(ts) - done_count]

\* The two counts that report() prints.
report_counts(ts) ==
    LET done_count == Len(SelectSeq(ts, LAMBDA t : t.done))
    IN  [done_count |-> done_count, undone_count |-> Len(ts) - done_count]

\* A priority of 0 accepted too.
ValidPriorityFromZero(p) == p \in {0, 1, 2, 3}

\* p in (1, 2, 3)
ValidPriority(p) == p \in {1, 2, 3}

\* The new task put in front of the list.
AppendTaskInFront(ts, t, p) == <<Task(t, FALSE, p)>> \o ts

\* tasks.append({"title": title, "done": False, "priority": priority})
AppendTask(ts, t, p) == Append(ts, Task(t, FALSE, p))

\* Every choice below 1 taken as the exit command.
ExitChoiceBelowOne(choice) == choice <= 0

\* choice == 0
ExitChoice(choice) == choice = 0

\* actions.get(choice) finds a handler.
HasAction(choice) == choice \in {1, 2, 3, 4, 5, 6}

\* The flag of the task stored before the selected one flipped (the last one
\* for i = 0).
ToggleAtOffByOne(ts, i) ==
    LET j == IF i = 0 THEN Len(ts) ELSE i
    IN  [ts EXCEPT ![j].done = ~ts[j].done]

\* The flag set instead of flipped.
ToggleAtSetsDone(ts, i) == [ts EXCEPT ![i + 1].done = TRUE]

\* tasks[i]["done"] = not tasks[i]["done"] for a zero-based i.
ToggleAt(ts, i) == [ts EXCEPT ![i + 1].done = ~ts[i + 1].done]

\* The element before the selected one removed (the last one for i = 0).
DelAtOffByOne(ts, i) ==
    IF i = 0 THEN SubSeq(ts, 1, Len(ts) - 1)
    ELSE SubSeq(ts, 1, i - 1) \o SubSeq(ts, i + 1, Len(ts))

\* The last element removed whatever i is.
DelAtPop(ts, i) == SubSeq(ts, 1, Len(ts) - 1)

\* del tasks[i] for a zero-based i.
DelAt(ts, i) == SubSeq(ts, 1, i) \o SubSeq(ts, i + 2, Len(ts))

NoTwice == [hit |-> FALSE, base |-> <<>>, idx |-> 0]

(***************************************************************************)
(* The state machine                                                       *)
(***************************************************************************)
Init ==
    /\ tasks = <<>>
    /\ pc = "menu"
    /\ title = <<>>
    /\ out = <<>>
    /\ last = [op |-> "start", line |-> <<>>]
    /\ prev = <<>>
    /\ twice = NoTwice

\* The choices that get_int makes of the menu lines.
MenuChoices == {ParseInt(m).val : m \in {x \in MenuLines : ParseInt(x).ok}}

\* main() has read a menu line that int() turns into choice.
Chosen(choice) ==
    /\ pc = "menu"
    /\ choice \in MenuChoices

\* Choice 1, add_task up to the priority prompt.
AddTask(line) ==
    /\ Chosen(1)
    /\ prev' = tasks
    /\ last' = [op |-> "add", line |-> line]
    /\ twice' = NoTwice
    /\ tasks' = tasks
    /\ LET t == Strip(line)
       IN  IF t = <<>>
           THEN /\ out' = << <<"Title cannot be empty.">> >>
                /\ UNCHANGED <<pc, title>>
           ELSE IF title_exists(tasks, t)
                THEN /\ out' = << <<"Task with this title already exists.">> >>
                     /\ UNCHANGED <<pc, title>>
                ELSE /\ Len(tasks) < MaxTasks
                     /\ pc' = "priority"
                     /\ title' = t
                     /\ out' = <<>>

\* input_priority: one pass of its loop, then the append when it returns.
InputPriority(line) ==
    /\ pc = "priority"
    /\ last' = [op |-> "priority", line |-> line,
                title_line |-> IF last.op = "add" THEN last.line ELSE last.title_line]
    /\ twice' = NoTwice
    /\ UNCHANGED prev
    /\ LET p == ParseInt(line)
       IN  IF p.ok /\ ValidPriority(p.val)
           THEN /\ tasks' = AppendTask(tasks, title, p.val)
                /\ out' = << <<"Task added.">> >>
                /\ pc' = "menu"
                /\ title' = <<>>
           ELSE /\ out' = IF p.ok
                          THEN << <<"Invalid priority. Try again.">> >>
                          ELSE << <<"Please enter a number (1-3).">> >>
                /\ UNCHANGED <<tasks, pc, title>>

\* Choice 2, show_tasks.
ShowTasks ==
    /\ Chosen(2)
    /\ prev' = tasks
    /\ last' = [op |-> "show", line |-> <<>>]
    /\ twice' = NoTwice
    /\ out' = IF tasks = <<>> THEN << <<"No tasks found.">> >>
              ELSE print_grouped_tasks(tasks)
    /\ UNCHANGED <<tasks, pc, title>>

\* Choice 3, toggle_task on an empty list: no prompt is shown.
ToggleTaskEmpty ==
    /\ Chosen(3)
    /\ tasks = <<>>
    /\ prev' = tasks
    /\ last' = [op |-> "toggle", line |-> <<>>]
    /\ twice' = NoTwice
    /\ out' = << <<"No tasks available.">> >>
    /\ UNCHANGED <<tasks, pc, title>>

\* Choice 3, toggle_task with the line typed at its prompt.
ToggleTask(line) ==
    /\ Chosen(3)
    /\ tasks # <<>>
    /\ prev' = tasks
    /\ last' = [op |-> "toggle", line |-> line]
    /\ LET r == get_display_index(tasks, line)
       IN  IF r.none
           THEN /\ out' = << <<r.msg>> >>
                /\ twice' = NoTwice
                /\ tasks' = tasks
           ELSE /\ tasks' = ToggleAt(tasks, r.idx)
                /\ out' = << <<"Task status updated.">> >>
                /\ twice' = IF /\ last.op = "toggle"
                               /\ out = << <<"Task status updated.">> >>
                               /\ get_display_index(prev, last.line).idx = r.idx
                            THEN [hit |-> TRUE, base |-> prev, idx |-> r.idx]
                            ELSE NoTwice
    /\ UNCHANGED <<pc, title>>

\* Choice 4, delete_task on an empty list: no prompt is shown.
DeleteTaskEmpty ==
    /\ Chosen(4)
    /\ tasks = <<>>
    /\ prev' = tasks
    /\ last' = [op |-> "delete", line |-> <<>>]
    /\ twice' = NoTwice
    /\ out' = << <<"No tasks available.">> >>
    /\ UNCHANGED <<tasks, pc, title>>

\* Choice 4, delete_task with the line typed at its prompt.
DeleteTask(line) ==
    /\ Chosen(4)
    /\ tasks # <<>>
    /\ prev' = tasks
    /\ last' = [op |-> "delete", line |-> line]
    /\ twice' = NoTwice
    /\ LET r == get_display_index(tasks, line)
       IN  IF r.none
           THEN /\ out' = << <<r.msg>> >>
                /\ tasks' = tasks
           ELSE /\ tasks' = DelAt(tasks, r.idx)
                /\ out' = << <<"Task deleted.">> >>
    /\ UNCHANGED <<pc, title>>

\* Choice 5, report.
Report ==
    /\ Chosen(5)
    /\ prev' = tasks
    /\ last' = [op |-> "report", line |-> <<>>]
    /\ twice' = NoTwice
    /\ out' = LET c == report_counts(tasks)
              IN  << <<"Done: ", c.done_count, " | Undone: ", c.undone_count>> >>
    /\ UNCHANGED <<tasks, pc, title>>

\* Choice 6, search_tasks with the line typed at its prompt.
SearchTasks(line) ==
    /\ Chosen(6)
    /\ prev' = tasks
    /\ last' = [op |-> "search", line |-> line]
    /\ twice' = NoTwice
    /\ LET keyword == Lower(Strip(line))
           sorted_found == find_matching_tasks(tasks, keyword)
       IN  out' = IF keyword = <<>>
                  THEN << <<"Keyword cannot be empty.">> >>
                  ELSE IF sorted_found = <<>>
                  THEN << <<"No tasks found for this keyword.">> >>
                  ELSE << <<"\nSearch results:">> >>
                       \o [k \in 1..Len(sorted_found) |->
                              format_task_line(k, sorted_found[k][2])]
    /\ UNCHANGED <<tasks, pc, title>>

\* get_int fails on the menu line: main() prints the menu again.
MenuNotANumber(line) ==
    /\ pc = "menu"
    /\ ~ParseInt(line).ok
    /\ prev' = tasks
    /\ last' = [op |-> "menu", line |-> line]
    /\ twice' = NoTwice
    /\ out' = << <<"Please enter a valid number.">> >>
    /\ UNCHANGED <<tasks, pc, title>>

\* A numeric menu line that is neither 0 nor the key of a handler.
InvalidOption(line) ==
    /\ pc = "menu"
    /\ ParseInt(line).ok
    /\ ~ExitChoice(ParseInt(line).val)
    /\ ~HasAction(ParseInt(line).val)
    /\ prev' = tasks
    /\ last' = [op |-> "menu", line |-> line]
    /\ twice' = NoTwice
    /\ out' = << <<"Invalid option. Try again.">> >>
    /\ UNCHANGED <<tasks, pc, title>>

\* The exit command: main() leaves its loop.
Exit(line) ==
    /\ pc = "menu"
    /\ ParseInt(line).ok
    /\ ExitChoice(ParseInt(line).val)
    /\ prev' = tasks
    /\ last' = [op |-> "exit", line |-> line]
    /\ twice' = NoTwice
    /\ out' = << <<"Exiting. Goodbye!">> >>
    /\ pc' = "exited"
    /\ UNCHANGED <<tasks, title>>

Next ==
    \/ \E line \in TitleLines : AddTask(line)
    \/ \E line \in NumberLines : InputPriority(line)
    \/ ShowTasks
    \/ ToggleTaskEmpty
    \/ \E line \in NumberLines : ToggleTask(line)
    \/ DeleteTaskEmpty
    \/ \E line \in NumberLines : DeleteTask(line)
    \/ Report
    \/ \E line \in KeywordLines : SearchTasks(line)
    \/ \E line \in MenuLines : MenuNotANumber(line)
    \/ \E line \in MenuLines : InvalidOption(line)
    \/ \E line \in MenuLines : Exit(line)

Spec == Init /\ [][Next]_vars

(***************************************************************************)
(* Vocabulary of the properties                                            *)
(***************************************************************************)
a == <<"a">>
b == <<"b">>
ab == <<"a", "b">>

\* Two characters that differ at most by case.
SameCharIgnoringCase(c1, c2) ==
    c1 = c2 \/ {c1, c2} \in {{"a", "A"}, {"b", "B"}, {"c", "C"}}

SameIgnoringCase(s1, s2) ==
    /\ Len(s1) = Len(s2)
    /\ \A i \in 1..Len(s1) : SameCharIgnoringCase(s1[i], s2[i])

\* The line without its leading and trailing whitespace, by positions.
Trimmed(line) ==
    LET inked == {i \in 1..Len(line) : line[i] \notin Whitespace}
    IN  IF inked = {} THEN <<>>
        ELSE SubSeq(line, CHOOSE i \in inked : \A j \in inked : i <= j,
                          CHOOSE i \in inked : \A j \in inked : j <= i)

\* The task lines among printed lines.
TaskLines(printed) == SelectSeq(printed, LAMBDA l : Len(l) = 4)

\* Zero-based positions of the tasks of ts with title t.
IndicesOfTitle(ts, t) == {i \in 0..(Len(ts) - 1) : ts[i + 1].title = t}

\* The last command was a toggle or a delete that got an index.
Toggled == last.op = "toggle" /\ out = << <<"Task status updated.">> >>
Deleted == last.op = "delete" /\ out = << <<"Task deleted.">> >>

\* C1: for a non-empty store of n tasks, the display mapping has length n, holds
\* each original index 0..n-1 exactly once, and every index of an undone task
\* comes before every index of a done task.
C1_MappingIsGroupedPermutation ==
    tasks # <<>> =>
        LET m == build_display_mapping(tasks)
            n == Len(tasks)
        IN  /\ Len(m) = n
            /\ \A i \in 0..(n - 1) : Cardinality({k \in 1..Len(m) : m[k] = i}) = 1
            /\ \A j, k \in 1..Len(m) :
                   (~tasks[m[j] + 1].done /\ tasks[m[k] + 1].done) => j < k

\* A three-task store where a done task is stored before undone ones after
\* add, toggle and delete have all run.
C1_Witness ==
    /\ Len(tasks) = 3
    /\ tasks[1].done /\ ~tasks[2].done /\ ~tasks[3].done
    /\ tasks[2].priority > tasks[3].priority
    /\ build_display_mapping(tasks) = <<2, 1, 0>>

\* C2: within the undone group and within the done group, priorities are
\* non-decreasing and tasks of equal priority are in increasing original-index
\* order; after add(a,2), add(b,1), add(ab,1) the display order is b, ab, a.
C2_GroupsSortedStable ==
    LET g == build_display_groups(tasks)
        Ordered(grp) ==
            \A j, k \in 1..Len(grp) :
                j < k => \/ grp[j][2].priority < grp[k][2].priority
                         \/ /\ grp[j][2].priority = grp[k][2].priority
                            /\ grp[j][1] < grp[k][1]
    IN  /\ Ordered(g.undone)
        /\ Ordered(g.done)
        /\ tasks = <<Task(a, FALSE, 2), Task(b, FALSE, 1), Task(ab, FALSE, 1)>>
               => build_display_mapping(tasks) = <<1, 2, 0>>

\* The store of the example, just after its third add.
C2_Witness ==
    /\ tasks = <<Task(a, FALSE, 2), Task(b, FALSE, 1), Task(ab, FALSE, 1)>>
    /\ last.op = "priority"
    /\ [k \in 1..3 |-> build_display_groups(tasks).undone[k][2].title] = <<b, ab, a>>

\* C3: right after show_tasks has printed a non-empty store, the task lines
\* are numbered 1..n, undone ones first, and every number k typed at the
\* toggle/delete prompt resolves to the original index of the task printed
\* with number k.
C3_ShownNumberResolvesToShownTask ==
    (last.op = "show" /\ tasks # <<>>) =>
        LET lines == TaskLines(out)
            n == Len(tasks)
            u == Cardinality({i \in 1..n : ~tasks[i].done})
        IN  /\ Len(lines) = n
            /\ \A k \in 1..n :
                   /\ lines[k][1] = k
                   /\ (lines[k][2] = "[ ]") <=> (k <= u)
                   /\ \A line \in NumberLines :
                          ParseInt(line) = [ok |-> TRUE, val |-> k] =>
                              LET r == get_display_index(tasks, line)
                              IN  /\ ~r.none
                                  /\ IndicesOfTitle(tasks, lines[k][3]) = {r.idx}
                                  /\ build_display_mapping(tasks)[k] = r.idx

\* A show of three tasks whose display order differs from the stored order
\* and that fills both groups.
C3_Witness ==
    /\ last.op = "show"
    /\ Len(tasks) = 3
    /\ tasks[1].done /\ ~tasks[3].done
    /\ build_display_mapping(tasks) # <<0, 1, 2>>
    /\ Len(TaskLines(out)) = 3

\* C4: no two stored tasks have titles that are equal ignoring case.
C4_TitlesUniqueIgnoringCase ==
    \A i, j \in 1..Len(tasks) :
        i # j => ~SameIgnoringCase(tasks[i].title, tasks[j].title)

\* A full store on which an add of a title in another casing was just refused.
C4_Witness ==
    /\ Len(tasks) = 3
    /\ last.op = "add"
    /\ last.line = <<"A">>
    /\ \E i \in 1..3 : tasks[i].title = a
    /\ out = << <<"Task with this title already exists.">> >>

\* C5: an add whose stripped title equals a stored title ignoring case is
\* refused, whatever its casing: nothing is appended, no task changes and the
\* priority prompt is not reached.
C5_DuplicateTitleRejected ==
    (/\ last.op = "add"
     /\ \E i \in 1..Len(prev) : SameIgnoringCase(prev[i].title, Trimmed(last.line)))
        => /\ tasks = prev
           /\ pc = "menu"
           /\ out = << <<"Task with this title already exists.">> >>

\* A refused add typed in a casing other than the stored one, with
\* surrounding whitespace.
C5_Witness ==
    /\ last.op = "add"
    /\ last.line \in { <<"A">>, <<" ", "a", "\t">> }
    /\ \E i \in 1..Len(prev) : prev[i].title # Trimmed(last.line)
                               /\ SameIgnoringCase(prev[i].title, Trimmed(last.line))
    /\ tasks = prev
    /\ pc = "menu"

\* C6: an add with an empty or whitespace-only title fails and leaves the
\* store exactly as it was.
C6_EmptyTitleRejected ==
    (/\ last.op = "add"
     /\ \A i \in 1..Len(last.line) : last.line[i] \in Whitespace)
        => /\ tasks = prev
           /\ pc = "menu"
           /\ title = <<>>
           /\ out = << <<"Title cannot be empty.">> >>

\* A whitespace-only title refused on a store that holds tasks.
C6_Witness ==
    /\ last.op = "add"
    /\ last.line = <<" ">>
    /\ Len(tasks) = 2
    /\ tasks = prev
    /\ out = << <<"Title cannot be empty.">> >>

\* The title that show_tasks prints with number k for the store ts.
ShownTitle(ts, k) ==
    LET lines == TaskLines(print_grouped_tasks(ts))
    IN  lines[CHOOSE j \in 1..Len(lines) : lines[j][1] = k][3]

\* The number typed at the prompt of the last toggle or delete is a valid
\* display number of the store the command started from.
ValidNumber ==
    /\ last.op \in {"toggle", "delete"}
    /\ prev # <<>>
    /\ ParseInt(last.line).ok
    /\ ParseInt(last.line).val \in 1..Len(prev)

\* C7: a delete with a valid display number k removes exactly the task shown
\* at position k: the size drops by one, the tasks stored before it keep their
\* index and fields, the tasks stored after it keep their fields one index
\* lower; deleting position 1 of a one-task store empties it.
C7_DeleteRemovesShownTask ==
    (last.op = "delete" /\ ValidNumber) =>
        LET k == ParseInt(last.line).val
            hit == IndicesOfTitle(prev, ShownTitle(prev, k))
        IN  /\ Cardinality(hit) = 1
            /\ LET i == CHOOSE x \in hit : TRUE
               IN  /\ Len(tasks) = Len(prev) - 1
                   /\ \A j \in 1..i : tasks[j] = prev[j]
                   /\ \A j \in (i + 1)..Len(tasks) : tasks[j] = prev[j + 1]
            /\ Len(prev) = 1 => tasks = <<>>

\* A delete of the middle task of three, picked by a display number that
\* differs from its stored position.
C7_Witness ==
    /\ Deleted
    /\ Len(prev) = 3
    /\ ParseInt(last.line).val = 1
    /\ tasks = <<prev[1], prev[3]>>

\* C8 as stated: after a delete of original index i the recomputed mapping
\* does not contain i.
C8_DeletedIndexAbsent ==
    Deleted =>
        LET i == get_display_index(prev, last.line).idx
            m == build_display_mapping(tasks)
        IN  \A k \in 1..Len(m) : m[k] # i

\* C8 amended: after a delete of original index i from n tasks the recomputed
\* mapping is a permutation of 0..n-2 none of whose entries denotes the deleted
\* task, and it contains i exactly when i < n-1 (i then names the task that
\* was stored right after the deleted one).
C8_DeletedTaskAbsent ==
    Deleted =>
        LET i == get_display_index(prev, last.line).idx
            n == Len(prev)
            m == build_display_mapping(tasks)
        IN  /\ Len(m) = n - 1
            /\ \A x \in 0..(n - 2) : \E k \in 1..Len(m) : m[k] = x
            /\ \A k \in 1..Len(m) :
                   /\ m[k] \in 0..(n - 2)
                   /\ tasks[m[k] + 1].title # prev[i + 1].title
            /\ (\E k \in 1..Len(m) : m[k] = i) <=> (i < n - 1)
            /\ i < n - 1 => tasks[i + 1] = prev[i + 2]

\* A delete of the first stored task of three: index 0 is in the new mapping.
C8_Witness ==
    /\ Deleted
    /\ Len(prev) = 3
    /\ get_display_index(prev, last.line).idx = 0
    /\ \E k \in 1..2 : build_display_mapping(tasks)[k] = 0

\* C9: two successful toggles of the same original index in a row give back
\* the store as it was before the first, flag included, and neither changes
\* the size of the store.
C9_ToggleTwiceRestores ==
    twice.hit =>
        /\ tasks = twice.base
        /\ tasks[twice.idx + 1].done = twice.base[twice.idx + 1].done
        /\ prev[twice.idx + 1].done # tasks[twice.idx + 1].done
        /\ Len(prev) = Len(twice.base)
        /\ Len(tasks) = Len(prev)

\* A double toggle of a task whose display number changed in between.
C9_Witness ==
    /\ twice.hit
    /\ Len(tasks) = 3
    /\ twice.idx = 0
    /\ last.line = <<"3">>
    /\ ~tasks[1].done

\* C10: get_display_index yields an index exactly when the store is non-empty
\* and the typed line is a number n with 1 <= n <= length of the mapping, and
\* the index is then mapping[n-1]; in every other case the toggle or delete
\* that called it leaves the store unchanged.
C10_IndexAcceptedIffInRange ==
    last.op \in {"toggle", "delete"} =>
        LET m == build_display_mapping(prev)
            n == ParseInt(last.line)
        IN  IF prev # <<>> /\ n.ok /\ 1 <= n.val /\ n.val <= Len(m)
            THEN /\ Toggled \/ Deleted
                 /\ Toggled =>
                      /\ Len(tasks) = Len(prev)
                      /\ \A j \in 1..Len(prev) :
                           (tasks[j] # prev[j]) <=> (j = m[n.val] + 1)
                 /\ Deleted =>
                      /\ Len(tasks) = Len(prev) - 1
                      /\ \A j \in 1..Len(tasks) :
                           tasks[j].title # prev[m[n.val] + 1].title
            ELSE /\ tasks = prev
                 /\ out \in { << <<"No tasks available.">> >>,
                              << <<"Please enter a valid number.">> >>,
                              << <<"Invalid task number.">> >> }
                 /\ (prev = <<>>) <=> (out = << <<"No tasks available.">> >>)
                 /\ (prev # <<>> /\ ~n.ok)
                        <=> (out = << <<"Please enter a valid number.">> >>)

\* A delete refused on a three-task store for the number one past the end of
\* the mapping.
C10_Witness ==
    /\ last.op = "delete"
    /\ last.line = <<"4">>
    /\ Len(prev) = 3
    /\ get_display_index(prev, last.line).none
    /\ tasks = prev
    /\ out = << <<"Invalid task number.">> >>

\* The string s contains sub at some offset, letters compared ignoring case.
ContainsIgnoringCase(s, sub) ==
    \E off \in 0..(Len(s) - Len(sub)) :
        \A i \in 1..Len(sub) : SameCharIgnoringCase(s[off + i], sub[i])

\* Pairs <<original index, task>> ordered by priority, ties by original index.
OrderedByPriorityThenIndex(pairs) ==
    \A j, k \in 1..Len(pairs) :
        j < k => \/ pairs[j][2].priority < pairs[k][2].priority
                 \/ /\ pairs[j][2].priority = pairs[k][2].priority
                    /\ pairs[j][1] < pairs[k][1]

\* C11: for every keyword, the search returns exactly the pairs <<original
\* index, task>> whose title contains the keyword ignoring case, done or not,
\* ordered by priority with ties in original-index order; the search command
\* prints them in that order and leaves the store unchanged.
C11_SearchReturnsMatchesInOrder ==
    /\ \A line \in KeywordLines :
           LET res == find_matching_tasks(tasks, Lower(Strip(line)))
               hits == {i \in 0..(Len(tasks) - 1) :
                           ContainsIgnoringCase(tasks[i + 1].title, Trimmed(line))}
           IN  /\ Len(res) = Cardinality(hits)
               /\ \A k \in 1..Len(res) : /\ res[k][1] \in hits
                                         /\ res[k][2] = tasks[res[k][1] + 1]
               /\ OrderedByPriorityThenIndex(res)
    /\ last.op = "search" =>
           /\ tasks = prev
           /\ pc = "menu"
           /\ LET hits == {i \in 0..(Len(tasks) - 1) :
                              ContainsIgnoringCase(tasks[i + 1].title, Trimmed(last.line))}
                  lines == TaskLines(out)
              IN  (Trimmed(last.line) # <<>>) =>
                      /\ Len(lines) = Cardinality(hits)
                      /\ \A k \in 1..Len(lines) :
                             /\ lines[k][1] = k
                             /\ \E i \in hits : lines[k][3] = tasks[i + 1].title
                      /\ \A j, k \in 1..Len(lines) : j < k => lines[j][4] <= lines[k][4]

\* A search typed in upper case that finds a done and an undone task and
\* lists them in an order other than the stored one.
C11_Witness ==
    /\ last.op = "search"
    /\ last.line = <<" ", "B">>
    /\ Len(tasks) = 3
    /\ LET res == find_matching_tasks(tasks, <<"b">>)
       IN  /\ Len(res) = 2
           /\ res[1][1] > res[2][1]
           /\ res[1][2].done # res[2][2].done
    /\ Len(TaskLines(out)) = 2

\* The last command ended in one of the errors of the menu, of add_task or
\* of the task number prompt.
EndedInError ==
    \/ /\ last.op = "menu"
    \/ /\ last.op = "add"
       /\ \/ Trimmed(last.line) = <<>>
          \/ \E i \in 1..Len(prev) : SameIgnoringCase(prev[i].title, Trimmed(last.line))
    \/ /\ last.op \in {"toggle", "delete"}
       /\ ~ValidNumber

\* C12: the loop of main() is left only by the menu choice 0; a menu line that
\* is not a number or is outside 0..6, and every command that ends in an error,
\* leave the program at the menu prompt with the store unchanged.
C12_LoopEndsOnlyOnZero ==
    /\ pc = "exited" =>
           /\ last.op = "exit"
           /\ ParseInt(last.line) = [ok |-> TRUE, val |-> 0]
           /\ tasks = prev
    /\ last.op = "menu" =>
           \/ ~ParseInt(last.line).ok
           \/ ParseInt(last.line).val \notin 0..6
    /\ \A line \in MenuLines :
           (~ParseInt(line).ok \/ ParseInt(line).val \notin 0..6) =>
               (pc = "menu" => ENABLED (MenuNotANumber(line) \/ InvalidOption(line)))
    /\ EndedInError =>
           /\ pc = "menu"
           /\ tasks = prev
           /\ Len(out) = 1

\* A negative menu choice refused on a store of two tasks.
C12_Witness ==
    /\ last.op = "menu"
    /\ last.line = <<"-", "1">>
    /\ out = << <<"Invalid option. Try again.">> >>
    /\ pc = "menu"
    /\ Len(tasks) = 2

\* The titles and priorities of a store, in stored order.
TitlesAndPriorities(ts) == [i \in 1..Len(ts) |-> <<ts[i].title, ts[i].priority>>]

\* C13: every stored task has a priority in {1,2,3}, a priority line outside
\* it is asked again, and no command changes the title or the priority of a
\* task that it leaves in the store.
C13_PriorityValidAndImmutable ==
    /\ \A i \in 1..Len(tasks) : tasks[i].priority \in {1, 2, 3}
    /\ (last.op = "priority" /\ ParseInt(last.line).val \notin {1, 2, 3}) =>
           /\ pc = "priority"
           /\ tasks = prev
    /\ IF Deleted
       THEN \E i \in 1..Len(prev) :
                TitlesAndPriorities(tasks)
                    = SubSeq(TitlesAndPriorities(prev), 1, i - 1)
                      \o SubSeq(TitlesAndPriorities(prev), i + 1, Len(prev))
       ELSE /\ Len(tasks) >= Len(prev)
            /\ SubSeq(TitlesAndPriorities(tasks), 1, Len(prev))
                   = TitlesAndPriorities(prev)

\* A toggle on a store that holds all three priorities.
C13_Witness ==
    /\ Toggled
    /\ Len(tasks) = 3
    /\ {tasks[i].priority : i \in 1..3} = {1, 2, 3}
    /\ tasks # prev
    /\ TitlesAndPriorities(tasks) = TitlesAndPriorities(prev)

\* C14: a toggle with a valid display number k flips the done flag of the
\* task shown at position k and nothing else.  When that task was undone, the
\* next display has it in the done group, keeps the undone tasks shown before
\* it in place and moves those shown after it up by one; toggling position 1
\* of the store a(2), b(1), ab(1) makes ab undone position 1.
C14_ToggleFlipsOnlyShownTask ==
    (last.op = "toggle" /\ ValidNumber) =>
        LET k == ParseInt(last.line).val
            hit == IndicesOfTitle(prev, ShownTitle(prev, k))
            u == Cardinality({j \in 1..Len(prev) : ~prev[j].done})
            before == build_display_mapping(prev)
            after == build_display_mapping(tasks)
        IN  /\ Cardinality(hit) = 1
            /\ Len(tasks) = Len(prev)
            /\ LET i == CHOOSE x \in hit : TRUE
               IN  /\ \A j \in 1..Len(prev) : j # i + 1 => tasks[j] = prev[j]
                   /\ tasks[i + 1].title = prev[i + 1].title
                   /\ tasks[i + 1].priority = prev[i + 1].priority
                   /\ tasks[i + 1].done = ~prev[i + 1].done
                   /\ ~prev[i + 1].done =>
                          /\ k <= u
                          /\ \E p \in u..Len(after) : after[p] = i
                          /\ \A j \in 1..(k - 1) : after[j] = before[j]
                          /\ \A j \in (k + 1)..u : after[j - 1] = before[j]
            /\ (/\ prev = <<Task(a, FALSE, 2), Task(b, FALSE, 1), Task(ab, FALSE, 1)>>
                /\ k = 1)
                   => /\ tasks[2].done
                      /\ after[1] = 2

\* The toggle of the example: position 1 of a(2), b(1), ab(1).
C14_Witness ==
    /\ Toggled
    /\ last.line = <<"1">>
    /\ prev = <<Task(a, FALSE, 2), Task(b, FALSE, 1), Task(ab, FALSE, 1)>>
    /\ tasks = <<Task(a, FALSE, 2), Task(b, TRUE, 1), Task(ab, FALSE, 1)>>
    /\ build_display_mapping(tasks) = <<2, 0, 1>>

\* The elements of priority 1, then those of priority 2, then those of
\* priority 3, each in the order they had: a stable sort by priority.
StableSortByPriority(pairs) ==
    SelectSeq(pairs, LAMBDA pair : pair[2].priority = 1)
    \o SelectSeq(pairs, LAMBDA pair : pair[2].priority = 2)
    \o SelectSeq(pairs, LAMBDA pair : pair[2].priority = 3)

\* The grouping as specified: partition first, then sort each group.
grouped_view(ts) ==
    [undone |-> StableSortByPriority(
                    SelectSeq(_indexed_tasks(ts), LAMBDA pair : ~pair[2].done)),
     done   |-> StableSortByPriority(
                    SelectSeq(_indexed_tasks(ts), LAMBDA pair : pair[2].done))]

\* C15: sorting all indexed tasks by priority and then filtering them into
\* undone and done gives the same two groups, in the same order, as
\* partitioning first and sorting each group.
C15_SortThenFilterIsFilterThenSort ==
    build_display_groups(tasks) = grouped_view(tasks)

\* A store whose done group is displayed in an order other than the stored
\* one, next to an undone task stored between its members.
C15_Witness ==
    /\ Len(tasks) = 3
    /\ tasks[1].done /\ ~tasks[2].done /\ tasks[3].done
    /\ tasks[1].priority > tasks[3].priority
    /\ tasks[2].priority < tasks[3].priority
    /\ Len(grouped_view(tasks).done) = 2
    /\ grouped_view(tasks).done[1][1] = 2

\* C16: a successful add appends one task at the end of the store, with the
\* stripped title, the chosen priority and done = false, and leaves every
\* task that was stored at its index and unchanged.
C16_AddAppendsOneTask ==
    (last.op = "priority" /\ out = << <<"Task added.">> >>) =>
        LET p == ParseInt(last.line)
            t == Trimmed(last.title_line)
        IN  /\ p.ok /\ p.val \in {1, 2, 3}
            /\ t # <<>>
            /\ \A i \in 1..Len(prev) : ~SameIgnoringCase(prev[i].title, t)
            /\ Len(tasks) = Len(prev) + 1
            /\ \A i \in 1..Len(prev) : tasks[i] = prev[i]
            /\ tasks[Len(prev) + 1] = [title |-> t, done |-> FALSE, priority |-> p.val]
            /\ pc = "menu"

\* An add of a title typed with surrounding whitespace to a store that holds
\* a done task.
C16_Witness ==
    /\ last.op = "priority"
    /\ out = << <<"Task added.">> >>
    /\ last.title_line = <<" ", "a", "\t">>
    /\ last.line = <<" ", "0", "_", "2">>
    /\ Len(prev) = 2
    /\ prev[1].done
    /\ tasks[3] = Task(a, FALSE, 2)

\* C17: the counts that report prints are non-negative, sum to the size of
\* the store and are the sizes of the done and undone groups of the display;
\* report leaves the store unchanged.
C17_ReportCountsMatchGroups ==
    LET c == report_counts(tasks)
        g == build_display_groups(tasks)
    IN  /\ c.done_count >= 0
        /\ c.undone_count >= 0
        /\ c.done_count + c.undone_count = Len(tasks)
        /\ c.done_count = Len(g.done)
        /\ c.undone_count = Len(g.undone)
        /\ last.op = "report" =>
               /\ tasks = prev
               /\ pc = "menu"
               /\ out = << <<"Done: ", Len(g.done), " | Undone: ", Len(g.undone)>> >>

\* A report on two done tasks and an undone one.
C17_Witness ==
    /\ last.op = "report"
    /\ Len(tasks) = 3
    /\ ~tasks[1].done /\ tasks[2].done /\ tasks[3].done
    /\ out = << <<"Done: ", 2, " | Undone: ", 1>> >>

====
